---- MODULE Spec2Model ----
(***************************************************************************)
(* Model of package fraction (go-betterfractions): the Fraction value      *)
(* type, its constructors, the overflow-checked arithmetic, the widened    *)
(* comparison and the string parsers.                                      *)
(*                                                                         *)
(* uint64 is modelled as the integers 0..MaxUint64 with arithmetic that    *)
(* wraps modulo Base = MaxUint64 + 1, exactly as Go's unsigned arithmetic  *)
(* wraps modulo 2^64.  Every function of the package is an operator that   *)
(* follows the control flow of the source; the actions call them and       *)
(* record the call (op, args) and what it returned (res, err).             *)
(***************************************************************************)
EXTENDS Integers, Sequences, FiniteSets, TLC

VARIABLES
    op,      \* name of the function called last ("init" before any call)
    args,    \* the arguments of that call, as a tuple
    res,     \* the value it returned (a Fraction, or an int for Cmp)
    err,     \* the error it returned, ErrNil for a nil error, Panic for a run-time panic
    exact,   \* the exact (unwrapped) results of the uint64 +, -, * it executed
    divs,    \* the divisors of the uint64 divisions it executed
    loop     \* the locals of FromFloat64Approx, and whether it is in its loop

vars == <<op, args, res, err, exact, divs, loop>>

-----------------------------------------------------------------------------
(* Bounds *)

\* math.MaxUint64, scaled down: the largest value of the unsigned word.
MaxUint64 == 15

\* uint64 arithmetic is arithmetic modulo Base.
Base == MaxUint64 + 1

-----------------------------------------------------------------------------
(* Errors *)

ErrNil             == "nil"
ErrInvalid         == "ErrInvalid"
ErrOutOfRange      == "ErrOutOfRange"
ErrZeroDenominator == "ErrZeroDenominator"
\* a run-time panic (index out of range, integer divide by zero)
Panic              == "panic"

-----------------------------------------------------------------------------
(* The Fraction type and the integer utilities *)

Fraction(n, d, neg) == [numerator |-> n, denominator |-> d, negative |-> neg]

RECURSIVE gcd(_, _)
gcd(n1, n2) == IF n2 = 0 THEN n1 ELSE gcd(n2, n1 % n2)

\* normalize without the division by the gcd
normalize_noReduce(f) ==
    IF f.numerator = 0
    THEN Fraction(0, 1, FALSE)
    ELSE Fraction(f.numerator, f.denominator, f.negative)

normalize(f) ==
    IF f.numerator = 0
    THEN Fraction(0, 1, FALSE)
    ELSE LET g == gcd(f.numerator, f.denominator)
         IN  Fraction(f.numerator \div g, f.denominator \div g, f.negative)

\* the divisor normalize divides by, if it divides at all
normalizeDivs(f) ==
    IF f.numerator = 0 THEN {} ELSE {gcd(f.numerator, f.denominator)}

isZero(f) == f.numerator = 0

\* The type parameters of New and NewI (the integer constraint).  The 64-bit
\* types have the width of the word; int8 and uint8 stand for the narrower
\* widths and have a quarter of its values.
IntTypes == {"int8", "uint8", "int64", "uint64"}

TypeBase(T) == IF T \in {"int8", "uint8"} THEN Base \div 4 ELSE Base
IsSigned(T) == T \in {"int8", "int64"}
MinOf(T)    == IF IsSigned(T) THEN -(TypeBase(T) \div 2) ELSE 0
MaxOf(T)    == MinOf(T) + TypeBase(T) - 1
ValuesOf(T) == MinOf(T)..MaxOf(T)

\* a value of type T after wrap-around
WrapT(T, v) == ((v - MinOf(T)) % TypeBase(T)) + MinOf(T)

\* abs[T]: -n is computed in T, so the minimum of a signed type maps to itself
abs(T, n) == IF n < 0 THEN WrapT(T, -n) ELSE n

\* the conversion uint64(v) of an integer of any width (sign-extending)
ToUint64(v) == v % Base

\* bits.Mul64: the double-width product as (hi, lo)
Mul64(x, y) == <<(x * y) \div Base, (x * y) % Base>>

\* cmp128 that compares the low words only
cmp128_lowOnly(xhi, xlo, yhi, ylo) ==
    IF xlo < ylo THEN -1
    ELSE IF xlo > ylo THEN 1
    ELSE 0

cmp128(xhi, xlo, yhi, ylo) ==
    IF xhi < yhi THEN -1
    ELSE IF xhi > yhi THEN 1
    ELSE IF xlo < ylo THEN -1
    ELSE IF xlo > ylo THEN 1
    ELSE 0

-----------------------------------------------------------------------------
(* Constructors *)

\* the locals of FromFloat64Approx while no call of it has started
NoLoop == [pc |-> "idle", pPrev |-> 0, qPrev |-> 1, p |-> 1, q |-> 0, i |-> 0]

\* what a call returns: the Fraction, the error, and the arithmetic it executed
Out(v, e, ex, dv) == [val |-> v, err |-> e, exact |-> ex, divs |-> dv]

NewI(T, numerator) ==
    Fraction(ToUint64(abs(T, numerator)), 1, numerator < 0)

\* the untyped constants 0 and 1 have type int
Zero == NewI("int64", 0)
One  == NewI("int64", 1)

zeroValue == Zero

\* New that takes the sign of the numerator alone
New_signOfNumerator(T, K, numerator, denominator) ==
    IF denominator = 0 THEN Out(zeroValue, ErrZeroDenominator, {}, {})
    ELSE IF numerator = 0 THEN Out(zeroValue, ErrNil, {}, {})
    ELSE LET sign == numerator < 0
             n    == ToUint64(abs(T, numerator))
             d    == ToUint64(abs(K, denominator))
             gcf  == gcd(n, d)
         IN  Out(Fraction(n \div gcf, d \div gcf, sign), ErrNil, {}, {gcf})

New(T, K, numerator, denominator) ==
    IF denominator = 0 THEN Out(zeroValue, ErrZeroDenominator, {}, {})
    ELSE IF numerator = 0 THEN Out(zeroValue, ErrNil, {}, {})
    ELSE LET sign == (numerator < 0) # (denominator < 0)
             n    == ToUint64(abs(T, numerator))
             d    == ToUint64(abs(K, denominator))
             gcf  == gcd(n, d)
         IN  Out(Fraction(n \div gcf, d \div gcf, sign), ErrNil, {}, {gcf})

-----------------------------------------------------------------------------
(* Arithmetic engine.  Products, sums and differences are computed modulo  *)
(* Base, as the machine computes them; their exact values are reported in  *)
(* the exact field.                                                        *)

\* fastAdd that adds the magnitudes whatever the signs
fastAdd_ignoresSigns(f1, f2) ==
    LET a == f1.numerator
        b == f2.numerator
    IN  IF a > MaxUint64 - b
        THEN Out(zeroValue, ErrOutOfRange, {MaxUint64 - b}, {})
        ELSE LET r == Fraction((a + b) % Base, f1.denominator, f1.negative)
             IN  Out(normalize(r), ErrNil,
                     {MaxUint64 - b, a + b}, normalizeDivs(r))

\* fastAdd that gives a difference the sign of the first operand
fastAdd_signOfFirst(f1, f2) ==
    LET a == f1.numerator
        b == f2.numerator
    IN  IF f1.negative = f2.negative
        THEN IF a > MaxUint64 - b
             THEN Out(zeroValue, ErrOutOfRange, {MaxUint64 - b}, {})
             ELSE LET r == Fraction((a + b) % Base, f1.denominator, f1.negative)
                  IN  Out(normalize(r), ErrNil,
                          {MaxUint64 - b, a + b}, normalizeDivs(r))
        ELSE IF a >= b
             THEN LET r == Fraction((a - b) % Base, f1.denominator, f1.negative)
                  IN  Out(normalize(r), ErrNil, {a - b}, normalizeDivs(r))
             ELSE LET r == Fraction((b - a) % Base, f1.denominator, f1.negative)
                  IN  Out(normalize(r), ErrNil, {b - a}, normalizeDivs(r))

fastAdd(f1, f2) ==
    LET a == f1.numerator
        b == f2.numerator
    IN  IF f1.negative = f2.negative
        THEN IF a > MaxUint64 - b
             THEN Out(zeroValue, ErrOutOfRange, {MaxUint64 - b}, {})
             ELSE LET r == Fraction((a + b) % Base, f1.denominator, f1.negative)
                  IN  Out(normalize(r), ErrNil,
                          {MaxUint64 - b, a + b}, normalizeDivs(r))
        ELSE IF a >= b
             THEN LET r == Fraction((a - b) % Base, f1.denominator, f1.negative)
                  IN  Out(normalize(r), ErrNil, {a - b}, normalizeDivs(r))
             ELSE LET r == Fraction((b - a) % Base, f1.denominator, f2.negative)
                  IN  Out(normalize(r), ErrNil, {b - a}, normalizeDivs(r))

Add(f1, f2) ==
    IF isZero(f1) THEN Out(normalize(f2), ErrNil, {}, normalizeDivs(f2))
    ELSE IF isZero(f2) THEN Out(normalize(f1), ErrNil, {}, normalizeDivs(f1))
    ELSE IF f1.denominator = f2.denominator THEN fastAdd(f1, f2)
    ELSE
    LET g == gcd(f1.denominator, f2.denominator) IN
    IF g = 0 THEN Out(zeroValue, Panic, {}, {g}) ELSE
    LET scale1 == f2.denominator \div g
        scale2 == f1.denominator \div g
    IN
    IF scale1 = 0 THEN Out(zeroValue, Panic, {}, {g, scale1})
    ELSE IF f1.numerator > MaxUint64 \div scale1
    THEN Out(zeroValue, ErrOutOfRange, {}, {g, scale1})
    ELSE IF scale2 = 0 THEN Out(zeroValue, Panic, {}, {g, scale1, scale2})
    ELSE IF f2.numerator > MaxUint64 \div scale2
    THEN Out(zeroValue, ErrOutOfRange, {}, {g, scale1, scale2})
    ELSE
    LET a    == (f1.numerator * scale1) % Base
        b    == (f2.numerator * scale2) % Base
        den0 == f1.denominator \div g
        ex1  == {f1.numerator * scale1, f2.numerator * scale2}
        dv1  == {g, scale1, scale2, f2.denominator}
    IN
    IF f2.denominator = 0 THEN Out(zeroValue, Panic, ex1, dv1)
    ELSE IF den0 > MaxUint64 \div f2.denominator
    THEN Out(zeroValue, ErrOutOfRange, ex1, dv1)
    ELSE
    LET den == (den0 * f2.denominator) % Base
        ex2 == ex1 \cup {den0 * f2.denominator}
    IN
    IF f1.negative = f2.negative
    THEN IF a > MaxUint64 - b
         THEN Out(zeroValue, ErrOutOfRange, ex2 \cup {MaxUint64 - b}, dv1)
         ELSE LET r == Fraction((a + b) % Base, den, f1.negative)
              IN  Out(normalize(r), ErrNil, ex2 \cup {MaxUint64 - b, a + b},
                      dv1 \cup normalizeDivs(r))
    ELSE IF a >= b
         THEN LET r == Fraction((a - b) % Base, den, f1.negative)
              IN  Out(normalize(r), ErrNil, ex2 \cup {a - b},
                      dv1 \cup normalizeDivs(r))
         ELSE LET r == Fraction((b - a) % Base, den, f2.negative)
              IN  Out(normalize(r), ErrNil, ex2 \cup {b - a},
                      dv1 \cup normalizeDivs(r))

Negate(f1) ==
    IF f1.numerator = 0 THEN zeroValue
    ELSE Fraction(f1.numerator, f1.denominator, ~f1.negative)

\* Invert that loses the sign
Invert_dropsSign(f1) ==
    IF f1.numerator = 0 THEN Out(zeroValue, ErrZeroDenominator, {}, {})
    ELSE Out(Fraction(f1.denominator, f1.numerator, FALSE), ErrNil, {}, {})

Invert(f1) ==
    IF f1.numerator = 0 THEN Out(zeroValue, ErrZeroDenominator, {}, {})
    ELSE Out(Fraction(f1.denominator, f1.numerator, f1.negative), ErrNil, {}, {})

Abs(f) == Fraction(f.numerator, f.denominator, FALSE)

\* Subtract that forgets to negate its second operand
Subtract_withoutNegate(f1, f2) == Add(f1, f2)

Subtract(f1, f2) == Add(f1, Negate(f2))

\* Multiply whose sign is the OR of the operands' signs
Multiply_orOfSigns(f1, f2) ==
    IF f1.numerator = 0 \/ f2.numerator = 0 THEN Out(zeroValue, ErrNil, {}, {})
    ELSE
    LET g1 == gcd(f1.numerator, f2.denominator)
        g2 == gcd(f2.numerator, f1.denominator)
        n1 == f1.numerator \div g1
        d2 == f2.denominator \div g1
        n2 == f2.numerator \div g2
        d1 == f1.denominator \div g2
        dv == {g1, g2, n2, d2}
    IN
    IF n1 > MaxUint64 \div n2 THEN Out(zeroValue, ErrOutOfRange, {}, {g1, g2, n2})
    ELSE IF d2 = 0 THEN Out(zeroValue, Panic, {}, dv)
    ELSE IF d1 > MaxUint64 \div d2 THEN Out(zeroValue, ErrOutOfRange, {}, dv)
    ELSE
    LET num == (n1 * n2) % Base
        den == (d1 * d2) % Base
        neg == f1.negative \/ f2.negative
        r   == Fraction(num, den, neg)
    IN  Out(normalize(r), ErrNil, {n1 * n2, d1 * d2}, dv \cup normalizeDivs(r))

\* Multiply that checks the product of the numerators only
Multiply_numeratorCheckOnly(f1, f2) ==
    IF f1.numerator = 0 \/ f2.numerator = 0 THEN Out(zeroValue, ErrNil, {}, {})
    ELSE
    LET g1 == gcd(f1.numerator, f2.denominator)
        g2 == gcd(f2.numerator, f1.denominator)
        n1 == f1.numerator \div g1
        d2 == f2.denominator \div g1
        n2 == f2.numerator \div g2
        d1 == f1.denominator \div g2
        dv == {g1, g2, n2}
    IN
    IF n1 > MaxUint64 \div n2 THEN Out(zeroValue, ErrOutOfRange, {}, dv)
    ELSE
    LET num == (n1 * n2) % Base
        den == (d1 * d2) % Base
        neg == f1.negative # f2.negative
        r   == Fraction(num, den, neg)
    IN  Out(normalize(r), ErrNil, {n1 * n2, d1 * d2}, dv \cup normalizeDivs(r))

\* Multiply that checks the products of the operands as they are, without the
\* cross-cancellation
Multiply_noCrossCancel(f1, f2) ==
    IF f1.numerator = 0 \/ f2.numerator = 0 THEN Out(zeroValue, ErrNil, {}, {})
    ELSE
    LET n1 == f1.numerator
        d2 == f2.denominator
        n2 == f2.numerator
        d1 == f1.denominator
        dv == {n2, d2}
    IN
    IF n1 > MaxUint64 \div n2 THEN Out(zeroValue, ErrOutOfRange, {}, {n2})
    ELSE IF d2 = 0 THEN Out(zeroValue, Panic, {}, dv)
    ELSE IF d1 > MaxUint64 \div d2 THEN Out(zeroValue, ErrOutOfRange, {}, dv)
    ELSE
    LET num == (n1 * n2) % Base
        den == (d1 * d2) % Base
        neg == f1.negative # f2.negative
        r   == Fraction(num, den, neg)
    IN  Out(normalize(r), ErrNil, {n1 * n2, d1 * d2}, dv \cup normalizeDivs(r))

Multiply(f1, f2) ==
    IF f1.numerator = 0 \/ f2.numerator = 0 THEN Out(zeroValue, ErrNil, {}, {})
    ELSE
    LET g1 == gcd(f1.numerator, f2.denominator)
        g2 == gcd(f2.numerator, f1.denominator)
        n1 == f1.numerator \div g1
        d2 == f2.denominator \div g1
        n2 == f2.numerator \div g2
        d1 == f1.denominator \div g2
        dv == {g1, g2, n2, d2}
    IN
    IF n1 > MaxUint64 \div n2 THEN Out(zeroValue, ErrOutOfRange, {}, {g1, g2, n2})
    ELSE IF d2 = 0 THEN Out(zeroValue, Panic, {}, dv)
    ELSE IF d1 > MaxUint64 \div d2 THEN Out(zeroValue, ErrOutOfRange, {}, dv)
    ELSE
    LET num == (n1 * n2) % Base
        den == (d1 * d2) % Base
        neg == f1.negative # f2.negative
        r   == Fraction(num, den, neg)
    IN  Out(normalize(r), ErrNil, {n1 * n2, d1 * d2}, dv \cup normalizeDivs(r))

\* Divide that ignores the error of Invert
Divide_ignoresInvertError(f1, f2) ==
    LET f2i == Invert(f2)
    IN  Multiply(f1, f2i.val)

Divide(f1, f2) ==
    LET f2i == Invert(f2)
    IN  IF f2i.err # ErrNil THEN Out(zeroValue, f2i.err, {}, {})
        ELSE Multiply(f1, f2i.val)

Cmp(f1, f2) ==
    IF f1.numerator = 0 /\ f2.numerator = 0 THEN 0
    ELSE IF f1.negative # f2.negative
    THEN (IF f1.negative THEN -1 ELSE 1)
    ELSE
    LET g    == gcd(f1.denominator, f2.denominator)
        lmul == f2.denominator \div g
        rmul == f1.denominator \div g
        a    == Mul64(f1.numerator, lmul)
        b    == Mul64(f2.numerator, rmul)
        c    == cmp128(a[1], a[2], b[1], b[2])
    IN  IF f1.negative THEN -c ELSE c

-----------------------------------------------------------------------------
(* The arithmetic specification: a client that starts from two values of   *)
(* the constructors and calls the arithmetic and comparison functions on   *)
(* the values it holds, in any order.                                      *)

\* every Fraction a constructor returns with a nil error
Constructed ==
    {Zero, One}
    \cup {NewI(T, n) : <<T, n>> \in {<<T, n>> \in IntTypes \X (-Base..Base) : n \in ValuesOf(T)}}
    \cup {r.val : r \in {q \in {New(c[1], c[2], c[3], c[4]) :
                                  c \in {c \in IntTypes \X IntTypes \X (-Base..Base) \X (-Base..Base) :
                                           c[3] \in ValuesOf(c[1]) /\ c[4] \in ValuesOf(c[2])}} :
                          q.err = ErrNil}}

\* the functions that return a Fraction
FracOps == {"Add", "Subtract", "Multiply", "Divide", "Negate", "Invert", "Abs"}

\* the Fractions the client holds: the arguments and the result of the last call
Held == {args[i] : i \in 1..Len(args)} \cup (IF op \in FracOps THEN {res} ELSE {})

Init ==
    /\ op = "init"
    /\ args \in {<<x, y>> : x \in Constructed, y \in Constructed}
    /\ res = zeroValue
    /\ err = ErrNil
    /\ exact = {}
    /\ divs = {}
    /\ loop = NoLoop

\* a call name(x, y) that returned r
Returned(name, a, r) ==
    /\ op' = name
    /\ args' = a
    /\ res' = r.val
    /\ err' = r.err
    /\ exact' = r.exact
    /\ divs' = r.divs
    /\ loop' = loop

\* the value the client got last: the result of the last call that returned
\* a Fraction, its first value before any such call
Latest == IF op \in FracOps THEN res ELSE args[1]

\* the client applies a function to its latest value and a value it holds
DoAdd      == \E y \in Held : Returned("Add", <<Latest, y>>, Add(Latest, y))
DoSubtract == \E y \in Held : Returned("Subtract", <<Latest, y>>, Subtract(Latest, y))
DoMultiply == \E y \in Held : Returned("Multiply", <<Latest, y>>, Multiply(Latest, y))
DoDivide   == \E y \in Held : Returned("Divide", <<Latest, y>>, Divide(Latest, y))
DoNegate   == \E x \in Held : Returned("Negate", <<x>>, Out(Negate(x), ErrNil, {}, {}))
DoInvert   == \E x \in Held : Returned("Invert", <<x>>, Invert(x))
DoAbs      == \E x \in Held : Returned("Abs", <<x>>, Out(Abs(x), ErrNil, {}, {}))
DoCmp      == \E y \in Held : Returned("Cmp", <<Latest, y>>, Out(Cmp(Latest, y), ErrNil, {}, {}))

Next ==
    \/ DoAdd
    \/ DoSubtract
    \/ DoMultiply
    \/ DoDivide
    \/ DoNegate
    \/ DoInvert
    \/ DoAbs
    \/ DoCmp

Spec == Init /\ [][Next]_vars

-----------------------------------------------------------------------------
(* The constructor specification: any call of New, NewI, Zero or One, with *)
(* any instantiation of the type parameters.                               *)

InitNew ==
    /\ op = "init"
    /\ args = <<>>
    /\ res = zeroValue
    /\ err = ErrNil
    /\ exact = {}
    /\ divs = {}
    /\ loop = NoLoop

DoNew ==
    \E T \in IntTypes, K \in IntTypes :
        \E n \in ValuesOf(T), d \in ValuesOf(K) :
            Returned("New", <<T, K, n, d>>, New(T, K, n, d))

DoNewI ==
    \E T \in IntTypes :
        \E n \in ValuesOf(T) :
            Returned("NewI", <<T, n>>, Out(NewI(T, n), ErrNil, {}, {}))

DoZero == Returned("Zero", <<>>, Out(Zero, ErrNil, {}, {}))
DoOne  == Returned("One", <<>>, Out(One, ErrNil, {}, {}))

NextNew ==
    \/ DoNew
    \/ DoNewI
    \/ DoZero
    \/ DoOne

SpecNew == InitNew /\ [][NextNew]_vars

-----------------------------------------------------------------------------
(* String parsing.  A string is a sequence of characters.                  *)

Digits == {"0", "1", "2", "3", "4", "5", "6", "7", "8", "9"}

DigitVal(c) ==
    CASE c = "0" -> 0 [] c = "1" -> 1 [] c = "2" -> 2 [] c = "3" -> 3
      [] c = "4" -> 4 [] c = "5" -> 5 [] c = "6" -> 6 [] c = "7" -> 7
      [] c = "8" -> 8 [] c = "9" -> 9

\* the errors of strconv.ParseUint (a *NumError wrapping one of these)
ErrSyntax == "strconv.ErrSyntax"
ErrRange  == "strconv.ErrRange"

\* strings.TrimSpace
RECURSIVE TrimLeft(_)
TrimLeft(s) == IF s # <<>> /\ Head(s) = " " THEN TrimLeft(Tail(s)) ELSE s

RECURSIVE TrimRight(_)
TrimRight(s) ==
    IF s # <<>> /\ s[Len(s)] = " " THEN TrimRight(SubSeq(s, 1, Len(s) - 1)) ELSE s

TrimSpace(s) == TrimRight(TrimLeft(s))

\* strings.Contains(s, c) for a separator c of one character
Contains(s, c) == \E i \in 1..Len(s) : s[i] = c

\* strings.Split(s, c) for a separator c of one character
RECURSIVE Split(_, _)
Split(s, c) ==
    IF ~Contains(s, c) THEN <<s>>
    ELSE LET i == CHOOSE k \in 1..Len(s) : s[k] = c /\ \A j \in 1..(k - 1) : s[j] # c
         IN  <<SubSeq(s, 1, i - 1)>> \o Split(SubSeq(s, i + 1, Len(s)), c)

\* strconv.ParseUint(s, 10, 64): the digits are read from the left; the first
\* character that is no digit is a syntax error, the first digit that takes
\* the value beyond the word is a range error.
RECURSIVE parseUintFrom(_, _)
parseUintFrom(s, n) ==
    IF s = <<>> THEN [val |-> n, err |-> ErrNil]
    ELSE IF Head(s) \notin Digits THEN [val |-> 0, err |-> ErrSyntax]
    ELSE IF n * 10 + DigitVal(Head(s)) > MaxUint64
    THEN [val |-> MaxUint64, err |-> ErrRange]
    ELSE parseUintFrom(Tail(s), n * 10 + DigitVal(Head(s)))

ParseUint(s) ==
    IF s = <<>> THEN [val |-> 0, err |-> ErrSyntax] ELSE parseUintFrom(s, 0)

RECURSIVE getintsizeLoop(_)
getintsizeLoop(c) == IF c > 0 THEN 1 + getintsizeLoop(c \div 10) ELSE 0

getintsize(i) == IF i = 0 THEN 1 ELSE getintsizeLoop(i)

\* math.Pow(10, k), exact for the k that occur
RECURSIVE Pow10(_)
Pow10(k) == IF k = 0 THEN 1 ELSE 10 * Pow10(k - 1)

\* The conversion uint64(x) of a float64 x.  The language leaves the value
\* implementation-dependent when x does not fit the word: outOfRange is the
\* value the build gives then.
FloatToUint64(x, outOfRange) == IF x <= MaxUint64 THEN x ELSE outOfRange

ParseDecimal(s, outOfRange) ==
    LET str0 == TrimSpace(s) IN
    \* str[0] on an empty string: index out of range
    IF str0 = <<>> THEN Out(zeroValue, Panic, {}, {}) ELSE
    LET negative == str0[1] = "-"
        str      == IF negative THEN Tail(str0) ELSE str0
        parts    == Split(str, ".")
    IN
    IF Len(parts) > 2 THEN Out(zeroValue, "too much dots", {}, {})
    ELSE IF parts[1] = <<>>
    THEN Out(zeroValue, "no leading numeral at left hand side of decimal", {}, {})
    ELSE
    LET lhs == ParseUint(parts[1]) IN
    IF lhs.err # ErrNil THEN Out(zeroValue, lhs.err, {}, {})
    ELSE IF Len(parts) = 1
    THEN Out(Fraction(lhs.val, 1, negative), ErrNil, {}, {})
    ELSE
    LET rhs == ParseUint(parts[2]) IN
    IF rhs.err # ErrNil THEN Out(zeroValue, rhs.err, {}, {})
    ELSE
    LET fracpart == New("uint64", "uint64", rhs.val,
                        FloatToUint64(Pow10(getintsize(rhs.val)), outOfRange))
    IN
    IF fracpart.err # ErrNil THEN Out(zeroValue, fracpart.err, {}, {})
    ELSE Add(NewI("uint64", lhs.val), fracpart.val)

ParseFracString(str) ==
    LET s0 == TrimSpace(str) IN
    IF s0 = <<>> THEN Out(zeroValue, "empty fraction", {}, {}) ELSE
    LET sign == s0[1] = "-"
        s    == IF sign THEN TrimSpace(Tail(s0)) ELSE s0
    IN
    IF sign /\ s = <<>>
    THEN Out(zeroValue, "no leading numeral (no numbers after sign)", {}, {})
    ELSE
    LET parts == Split(s, "/") IN
    IF Len(parts) > 2 THEN Out(zeroValue, "to many fraction separators '/'", {}, {})
    ELSE
    LET numeratorStr == TrimSpace(parts[1]) IN
    IF numeratorStr = <<>> THEN Out(zeroValue, "numerator cannot be empty", {}, {})
    ELSE
    LET num == ParseUint(numeratorStr) IN
    IF num.err # ErrNil
    THEN Out(zeroValue, "numerator could not be parsed to unsigned 64 bit int", {}, {})
    ELSE IF Len(parts) = 2
    THEN LET denominatorStr == TrimSpace(parts[2]) IN
         IF denominatorStr = <<>>
         THEN Out(zeroValue, "fraction separator found but numerator empty", {}, {})
         ELSE
         LET den == ParseUint(denominatorStr) IN
         IF den.err # ErrNil
         THEN Out(zeroValue, "denominator could not be parsed to unsigned 64 bit int", {}, {})
         ELSE IF den.val = 0 THEN Out(zeroValue, ErrZeroDenominator, {}, {})
         ELSE LET f == Fraction(num.val, den.val, sign)
              IN  Out(normalize(f), ErrNil, {}, normalizeDivs(f))
    ELSE LET f == Fraction(num.val, 1, sign)
         IN  Out(normalize(f), ErrNil, {}, normalizeDivs(f))

Parse(s, outOfRange) ==
    IF Contains(s, "/") THEN ParseFracString(s) ELSE ParseDecimal(s, outOfRange)

-----------------------------------------------------------------------------
(* The parsing specification: calls of the parsers on any string of up to  *)
(* MaxLen characters of Chars.                                             *)

\* the longest input string
MaxLen == 4

\* the characters of the input strings: the sign, the two separators, white
\* space, some digits and a letter
Chars == {"-", ".", "/", " ", "0", "1", "3", "5", "a"}

Strings == UNION {[1..n -> Chars] : n \in 0..MaxLen}

\* the client has a string
InitParse ==
    /\ op = "init"
    /\ args \in {<<s>> : s \in Strings}
    /\ res = zeroValue
    /\ err = ErrNil
    /\ exact = {}
    /\ divs = {}
    /\ loop = NoLoop

\* and passes it to one of the parsers
DoParse ==
    \E outOfRange \in 0..MaxUint64 :
        Returned("Parse", args, Parse(args[1], outOfRange))

DoParseFracString ==
    Returned("ParseFracString", args, ParseFracString(args[1]))

DoParseDecimal ==
    \E outOfRange \in 0..MaxUint64 :
        Returned("ParseDecimal", args, ParseDecimal(args[1], outOfRange))

NextParse ==
    \/ DoParse
    \/ DoParseFracString
    \/ DoParseDecimal

SpecParse == InitParse /\ [][NextParse]_vars

-----------------------------------------------------------------------------
(* FromFloat64Approx.  Of the float64 argument the model keeps its class;  *)
(* the partial quotient a = uint64(math.Floor(x)) of an iteration and       *)
(* whether its fractional part is 0 are chosen freely, which covers every   *)
(* expansion (and every value of an out-of-range conversion).               *)

\* the safety bound of the loop (for range 1000), scaled down
SafetyBound == 6

FloatClasses == {"NaN", "zero", "negative", "positive"}

\* one iteration without the test newQ == 0
approxStep_noZeroTest(l, a, maxDen, fracZero) ==
    IF a # 0 /\ (l.p > MaxUint64 \div a \/ l.q > MaxUint64 \div a)
    THEN [l EXCEPT !.pc = "idle", !.i = @ + 1]
    ELSE LET newP == (a * l.p + l.pPrev) % Base
             newQ == (a * l.q + l.qPrev) % Base
         IN  IF newQ > maxDen
             THEN [l EXCEPT !.pc = "idle", !.i = @ + 1]
             ELSE [pc    |-> IF fracZero \/ l.i + 1 = SafetyBound THEN "idle" ELSE "loop",
                   pPrev |-> l.p,
                   qPrev |-> l.q,
                   p     |-> newP,
                   q     |-> newQ,
                   i     |-> l.i + 1]

\* One iteration of the loop on the locals l, for the partial quotient a:
\* the locals after it, with pc = "idle" when the loop is left (by a break or
\* because the range is exhausted).
approxStep(l, a, maxDen, fracZero) ==
    IF a # 0 /\ (l.p > MaxUint64 \div a \/ l.q > MaxUint64 \div a)
    THEN [l EXCEPT !.pc = "idle", !.i = @ + 1]
    ELSE LET newP == (a * l.p + l.pPrev) % Base
             newQ == (a * l.q + l.qPrev) % Base
         IN  IF newQ = 0 \/ newQ > maxDen
             THEN [l EXCEPT !.pc = "idle", !.i = @ + 1]
             ELSE [pc    |-> IF fracZero \/ l.i + 1 = SafetyBound THEN "idle" ELSE "loop",
                   pPrev |-> l.p,
                   qPrev |-> l.q,
                   p     |-> newP,
                   q     |-> newQ,
                   i     |-> l.i + 1]

\* the client has a float64 of some class and a maxDen
InitApprox ==
    /\ op = "init"
    /\ args \in {<<c, m>> : c \in FloatClasses, m \in 0..MaxUint64}
    /\ res = zeroValue
    /\ err = ErrNil
    /\ exact = {}
    /\ divs = {}
    /\ loop = NoLoop

\* the call, up to the loop: the argument checks return at once
ApproxCall ==
    /\ op = "init"
    /\ IF args[1] = "NaN" \/ args[2] = 0
       THEN Returned("FromFloat64Approx", args, Out(zeroValue, ErrInvalid, {}, {}))
       ELSE IF args[1] = "zero"
       THEN Returned("FromFloat64Approx", args, Out(zeroValue, ErrNil, {}, {}))
       ELSE /\ op' = "FromFloat64Approx"
            /\ args' = args
            /\ loop' = [NoLoop EXCEPT !.pc = "loop"]
            /\ UNCHANGED <<res, err, exact, divs>>

\* one iteration; when it leaves the loop the convergent is normalized and
\* returned
ApproxIterate ==
    /\ op = "FromFloat64Approx"
    /\ loop.pc = "loop"
    /\ \E a \in 0..MaxUint64, fracZero \in BOOLEAN :
           LET l == approxStep(loop, a, args[2], fracZero)
           IN  /\ loop' = l
               /\ res' = IF l.pc = "idle"
                         THEN normalize(Fraction(l.p, l.q, args[1] = "negative"))
                         ELSE res
               /\ UNCHANGED <<op, args, err, exact, divs>>

NextApprox ==
    \/ ApproxCall
    \/ ApproxIterate

SpecApprox == InitApprox /\ [][NextApprox]_vars

-----------------------------------------------------------------------------
(* Properties *)

\* n and d have no common divisor greater than 1
Coprime(n, d) == \A k \in 2..MaxUint64 : ~(n % k = 0 /\ d % k = 0)

\* the canonical form of section 3 of the specification
Canonical(f) ==
    /\ f.numerator \in 0..MaxUint64
    /\ f.denominator \in 1..MaxUint64
    /\ Coprime(f.numerator, f.denominator)
    /\ (f.numerator = 0 => (f.negative = FALSE /\ f.denominator = 1))

\* the numerator with its sign: the value of f is SNum(f) / f.denominator
SNum(f) == IF f.negative THEN -f.numerator ELSE f.numerator

Sign(v) == IF v < 0 THEN -1 ELSE IF v > 0 THEN 1 ELSE 0

\* C1: every Fraction that Add, Subtract, Multiply, Divide, Negate, Invert or
\* Abs returns with a nil error, after any sequence of such calls on values
\* of the constructors, is canonical: denominator >= 1, numerator and
\* denominator coprime, and zero is +0/1.
C1_CanonicalUnderOperations ==
    (op \in FracOps /\ err = ErrNil) => Canonical(res)

\* a sum of two halves, whose unreduced form 2/2 is not canonical
C1_Witness ==
    /\ op = "Add"
    /\ err = ErrNil
    /\ args[1].denominator = 2
    /\ args[2].denominator = 2
    /\ res = One

\* C2: New(n, d) with d # 0 returns a nil error and a Fraction in lowest
\* terms whose sign is (n < 0) XOR (d < 0), the canonical zero when n = 0;
\* New(n, 0) returns ErrZeroDenominator for every n.
C2_NewReducesAndSigns ==
    op = "New" =>
        LET n == args[3]
            d == args[4]
        IN  /\ (d = 0 => err = ErrZeroDenominator)
            /\ (d # 0 =>
                   /\ err = ErrNil
                   /\ res.denominator >= 1
                   /\ Coprime(res.numerator, res.denominator)
                   /\ (n = 0 => res = Fraction(0, 1, FALSE))
                   /\ (n # 0 => res.negative = ((n < 0) # (d < 0))))

\* New(-6, -8) = +3/4
C2_Witness ==
    /\ op = "New"
    /\ args = <<"int64", "int64", -6, -8>>
    /\ err = ErrNil
    /\ res = Fraction(3, 4, FALSE)

\* C3: when Add(a, b) returns a nil error its result is canonical and its
\* value is exactly a + b (so the sign is that of the larger magnitude when
\* the signs differ, and a zero sum is +0/1).
C3_AddIsExactSum ==
    (op = "Add" /\ err = ErrNil) =>
        LET a == args[1]
            b == args[2]
        IN  /\ Canonical(res)
            /\ SNum(res) * (a.denominator * b.denominator)
                 = (SNum(a) * b.denominator + SNum(b) * a.denominator) * res.denominator

\* the general path with operands of different signs, the second the larger
C3_Witness ==
    /\ op = "Add"
    /\ err = ErrNil
    /\ args[1].denominator # args[2].denominator
    /\ ~args[1].negative
    /\ args[2].negative
    /\ args[1].numerator > 0
    /\ res.negative
    /\ res.denominator > 1

\* C4: Add(a, b) and Add(b, a) return the same error and the same Fraction.
C4_AddCommutes ==
    op = "Add" =>
        LET r == Add(args[2], args[1])
        IN  /\ r.err = err
            /\ r.val = res

\* two different operands whose sum overflows, in either order
C4_Witness ==
    /\ op = "Add"
    /\ err = ErrOutOfRange
    /\ args[1] # args[2]
    /\ args[1].denominator # args[2].denominator

\* C5: when Multiply(a, b) returns a nil error its result is canonical, its
\* value is exactly a * b, its sign is the XOR of the operands' signs, and it
\* is the canonical zero when either numerator is 0.
C5_MultiplyIsExactProduct ==
    (op = "Multiply" /\ err = ErrNil) =>
        LET a == args[1]
            b == args[2]
        IN  /\ Canonical(res)
            /\ res.numerator * (a.denominator * b.denominator)
                 = (a.numerator * b.numerator) * res.denominator
            /\ (a.numerator # 0 /\ b.numerator # 0
                  => res.negative = (a.negative # b.negative))
            /\ (a.numerator = 0 \/ b.numerator = 0 => res = Fraction(0, 1, FALSE))

\* a product that needs the cross-cancellation, of operands of different signs
C5_Witness ==
    /\ op = "Multiply"
    /\ err = ErrNil
    /\ args[1].negative
    /\ ~args[2].negative
    /\ args[1].numerator * args[2].numerator > MaxUint64
    /\ res.negative

\* the greatest common divisor, from its definition
GCD(x, y) == CHOOSE k \in 1..MaxUint64 :
                 /\ x % k = 0 /\ y % k = 0
                 /\ \A j \in (k + 1)..MaxUint64 : ~(x % j = 0 /\ y % j = 0)

\* the exact products and sums that the algorithm of Add forms for a + b
AddIntermediates(a, b) ==
    IF a.numerator = 0 \/ b.numerator = 0 THEN {}
    ELSE IF a.denominator = b.denominator
    THEN (IF a.negative = b.negative THEN {a.numerator + b.numerator} ELSE {})
    ELSE LET g  == GCD(a.denominator, b.denominator)
             x  == a.numerator * (b.denominator \div g)
             y  == b.numerator * (a.denominator \div g)
         IN  {x, y, (a.denominator \div g) * b.denominator}
             \cup (IF a.negative = b.negative THEN {x + y} ELSE {})

\* the exact products that the algorithm of Multiply forms for a * b
MultiplyIntermediates(a, b) ==
    IF a.numerator = 0 \/ b.numerator = 0 THEN {}
    ELSE LET g1 == GCD(a.numerator, b.denominator)
             g2 == GCD(b.numerator, a.denominator)
         IN  {(a.numerator \div g1) * (b.numerator \div g2),
              (a.denominator \div g2) * (b.denominator \div g1)}

\* the intermediates of the last call
Intermediates ==
    CASE op = "Add"      -> AddIntermediates(args[1], args[2])
      [] op = "Subtract" -> AddIntermediates(args[1],
                                [args[2] EXCEPT !.negative = ~args[2].negative])
      [] op = "Multiply" -> MultiplyIntermediates(args[1], args[2])
      [] op = "Divide"   -> IF args[2].numerator = 0 THEN {}
                            ELSE MultiplyIntermediates(args[1],
                                     Fraction(args[2].denominator, args[2].numerator,
                                              args[2].negative))
      [] OTHER           -> {}

\* C6: in Add, Subtract, Multiply and Divide every executed uint64 product,
\* sum and difference has its exact value within 0..MaxUint64, no division
\* divides by zero, and the call returns ErrOutOfRange whenever one of the
\* products or sums of its algorithm exceeds MaxUint64.
C6_OverflowCheckedBeforehand ==
    op \in {"Add", "Subtract", "Multiply", "Divide"} =>
        /\ \A e \in exact : e \in 0..MaxUint64
        /\ 0 \notin divs
        /\ err # Panic
        /\ ((\E v \in Intermediates : v > MaxUint64) => err = ErrOutOfRange)

\* a product whose cross-cancelled numerators overflow
C6_Witness ==
    /\ op = "Multiply"
    /\ err = ErrOutOfRange
    /\ \E v \in Intermediates : v > MaxUint64
    /\ exact = {}

\* C7: Cmp(a, b) is the sign of a - b for all canonical a and b, also when the
\* cross products do not fit the word.
C7_CmpIsSignOfDifference ==
    op = "Cmp" =>
        LET a == args[1]
            b == args[2]
        IN  res = Sign(SNum(a) * b.denominator - SNum(b) * a.denominator)

\* two negative operands whose cross products differ only above the word
C7_Witness ==
    /\ op = "Cmp"
    /\ args[1].negative
    /\ args[2].negative
    /\ (args[1].numerator * args[2].denominator) \div Base
         > (args[2].numerator * args[1].denominator) \div Base
    /\ (args[1].numerator * args[2].denominator) % Base
         < (args[2].numerator * args[1].denominator) % Base
    /\ res = -1

\* a non-empty string of digits
IsDigits(s) == s # <<>> /\ \A i \in 1..Len(s) : s[i] \in Digits

\* the number a string of digits denotes
RECURSIVE NumVal(_)
NumVal(s) ==
    IF s = <<>> THEN 0
    ELSE NumVal(SubSeq(s, 1, Len(s) - 1)) * 10 + DigitVal(s[Len(s)])

\* s is digits "." digits, with the dot at position p
IsDecimalAt(s, p) ==
    /\ p \in 2..(Len(s) - 1)
    /\ s[p] = "."
    /\ IsDigits(SubSeq(s, 1, p - 1))
    /\ IsDigits(SubSeq(s, p + 1, Len(s)))

IntDigits(s, p)  == SubSeq(s, 1, p - 1)
FracDigits(s, p) == SubSeq(s, p + 1, Len(s))

\* the power of ten that ParseDecimal converts to uint64 for the fractional
\* digits f fits the word
ConversionInRange(f) ==
    \E k \in 1..Len(f) : NumVal(f) < Pow10(k) /\ Pow10(k) <= MaxUint64

\* the magnitude of r is i + f / 10^k, for k the number of digits of f
MagnitudeIs(r, i, f) ==
    r.numerator * Pow10(Len(f))
        = (NumVal(i) * Pow10(Len(f)) + NumVal(f)) * r.denominator

\* C8: for an input "-" digits "." digits of non-zero value, the Fraction
\* that ParseDecimal returns is negative and its magnitude is
\* integerPart + fractionalPart / 10^k.
C8_DecimalSignAppliesToWhole ==
    (op = "ParseDecimal" /\ err = ErrNil) =>
        LET s == args[1]
            t == Tail(s)
        IN  \A p \in 1..Len(s) :
                (/\ s[1] = "-"
                 /\ IsDecimalAt(t, p)
                 /\ ConversionInRange(FracDigits(t, p))
                 /\ NumVal(IntDigits(t, p)) + NumVal(FracDigits(t, p)) > 0)
                => (res.negative /\ MagnitudeIs(res, IntDigits(t, p), FracDigits(t, p)))

\* C9: for an input digits "." digits, with k digits after the dot (leading
\* zeros included), ParseDecimal returns the canonical Fraction of value
\* integerPart + fractionalPart / 10^k.
C9_DecimalCountsFractionDigits ==
    (op = "ParseDecimal" /\ err = ErrNil) =>
        LET s == args[1]
        IN  \A p \in 1..Len(s) :
                (IsDecimalAt(s, p) /\ ConversionInRange(FracDigits(s, p)))
                => (/\ Canonical(res)
                    /\ ~res.negative
                    /\ MagnitudeIs(res, IntDigits(s, p), FracDigits(s, p)))

\* s without its white space
RECURSIVE Unspaced(_)
Unspaced(s) ==
    IF s = <<>> THEN <<>>
    ELSE IF Head(s) = " " THEN Unspaced(Tail(s))
    ELSE <<Head(s)>> \o Unspaced(Tail(s))

\* white space aside, s is ["-"] digits [sep digits]
WellFormed(s, seps) ==
    LET u == Unspaced(s)
        m == IF u # <<>> /\ u[1] = "-" THEN Tail(u) ELSE u
    IN  \/ IsDigits(m)
        \/ \E p \in 1..Len(m) : m[p] \in seps /\ IsDigits(SubSeq(m, 1, p - 1))
                                              /\ IsDigits(SubSeq(m, p + 1, Len(m)))

\* C10: Parse, ParseFracString and ParseDecimal return for every input
\* string, the empty one and those of white space included: none panics, and
\* a malformed input gets a non-nil error.
C10_ParsersNeverPanic ==
    /\ op \in {"Parse", "ParseFracString", "ParseDecimal"} => err # Panic
    /\ (op = "Parse" /\ ~WellFormed(args[1], {".", "/"})) => err # ErrNil
    /\ (op = "ParseFracString" /\ ~WellFormed(args[1], {"/"})) => err # ErrNil
    /\ (op = "ParseDecimal" /\ ~WellFormed(args[1], {"."})) => err # ErrNil

\* C11: every Fraction that Parse, ParseFracString or ParseDecimal returns
\* with a nil error is canonical, also for an input that denotes a signed
\* zero ("-0", "-0/5", "-0.0").
C11_ParsedIsCanonical ==
    (op \in {"Parse", "ParseFracString", "ParseDecimal"} /\ err = ErrNil)
        => Canonical(res)

\* the number of occurrences of the character c in s
CountOf(s, c) == Cardinality({i \in 1..Len(s) : s[i] = c})

\* s without a leading sign
Unsigned(s) == IF s # <<>> /\ s[1] = "-" THEN Tail(s) ELSE s

\* s is digits "/" digits with the separator at position p, the numerator
\* within the word
IsFracAt(s, p) ==
    /\ p \in 2..(Len(s) - 1)
    /\ s[p] = "/"
    /\ IsDigits(SubSeq(s, 1, p - 1))
    /\ IsDigits(SubSeq(s, p + 1, Len(s)))
    /\ NumVal(SubSeq(s, 1, p - 1)) <= MaxUint64

\* C12: ParseFracString fails with ErrInvalid for more than one "/", an empty
\* numerator segment or a segment that is no unsigned integer literal within
\* the word (a signed denominator included), with ErrZeroDenominator exactly
\* when an explicit denominator parses to 0, and returns a nil error for
\* every ["-"] digits ["/" digits] with a non-zero denominator.
C12_ParseFracStringErrorKinds ==
    op = "ParseFracString" =>
        LET s == args[1]
            m == Unsigned(s)
        IN  /\ err \in {ErrNil, ErrInvalid, ErrZeroDenominator}
            /\ (CountOf(s, "/") > 1 => err = ErrInvalid)
            /\ ((m = <<>> \/ m[1] = "/") => err = ErrInvalid)
            /\ (\E p \in 1..Len(m) : IsFracAt(m, p) /\ m[p + 1] = "-")
                   => err = ErrInvalid
            /\ (err = ErrZeroDenominator
                  => \E p \in 1..Len(s) : s[p] = "/")
            /\ \A p \in 1..Len(m) :
                   IsFracAt(m, p) =>
                       LET d == NumVal(SubSeq(m, p + 1, Len(m)))
                       IN  /\ (d = 0 => err = ErrZeroDenominator)
                           /\ (d \in 1..MaxUint64 => err = ErrNil)
            /\ ((IsDigits(m) /\ NumVal(m) <= MaxUint64) => err = ErrNil)

C14_InvertIsInvolution ==
    op = "Invert" =>
        LET a == args[1]
        IN  /\ (a.numerator = 0 => err = ErrZeroDenominator)
            /\ (a.numerator # 0 =>
                   /\ err = ErrNil
                   /\ res.negative = a.negative
                   /\ res.numerator = a.denominator
                   /\ res.denominator = a.numerator
                   /\ Canonical(res)
                   /\ Invert(res).err = ErrNil
                   /\ Invert(res).val = a)

\* the inverse of a negative proper fraction
C14_Witness ==
    /\ op = "Invert"
    /\ err = ErrNil
    /\ args[1].negative
    /\ args[1].numerator > 1
    /\ args[1].denominator > args[1].numerator
    /\ res.negative

\* C15: Subtract(a, a), and Add(a, Negate(a)), return a nil error and the
\* canonical zero +0/1 for every canonical a, up to the largest magnitude.
C15_SubtractSelfIsZero ==
    /\ (op = "Subtract" /\ args[1] = args[2])
           => (err = ErrNil /\ res = Fraction(0, 1, FALSE))
    /\ (op = "Add" /\ args[2] = Negate(args[1]))
           => (err = ErrNil /\ res = Fraction(0, 1, FALSE))

\* the largest magnitude, negative, minus itself
C15_Witness ==
    /\ op = "Subtract"
    /\ args[1] = args[2]
    /\ args[1].numerator = MaxUint64
    /\ args[1].negative
    /\ err = ErrNil
    /\ res = Fraction(0, 1, FALSE)

\* the common divisors of x and y, for x >= 1
CommonDivisors(x, y) == {k \in 1..x : x % k = 0 /\ y % k = 0}

\* the greatest element of a non-empty set of numbers
Greatest(S) == CHOOSE m \in S : \A k \in S : k <= m

\* C17: for canonical non-zero a and b the cross-cancelled products of
\* Multiply are coprime (the final normalize changes nothing), and Multiply
\* returns ErrOutOfRange if and only if the numerator or the denominator of
\* the exact product in lowest terms exceeds MaxUint64.
C17_MultiplyOverflowIsExact ==
    (op = "Multiply" /\ args[1].numerator # 0 /\ args[2].numerator # 0) =>
        LET n == args[1].numerator * args[2].numerator
            d == args[1].denominator * args[2].denominator
            g == Greatest(CommonDivisors(n, d))
        IN  /\ err \in {ErrNil, ErrOutOfRange}
            /\ (err = ErrOutOfRange <=> (n \div g > MaxUint64 \/ d \div g > MaxUint64))
            /\ (err = ErrNil =>
                   /\ exact = {res.numerator, res.denominator}
                   /\ res.numerator = n \div g
                   /\ res.denominator = d \div g)

\* the unreduced numerators overflow, and so does the product in lowest terms
\* although the operands cross-cancel
C17_Witness ==
    /\ op = "Multiply"
    /\ err = ErrOutOfRange
    /\ ~args[1].negative
    /\ ~args[2].negative
    /\ args[1].numerator # 0
    /\ args[2].numerator # 0
    /\ Greatest(CommonDivisors(args[1].numerator, args[2].denominator)) > 1
    /\ args[1].denominator = 1

\* the magnitude of an integer
Magnitude(v) == IF v < 0 THEN -v ELSE v

\* C18: for every integer type and every n and d # 0 of that type, the
\* minimum of a signed type included, New(n, d) has the value |n| / |d| with
\* the XOR sign, and NewI(n) equals New(n, 1).
C18_NewPromotesMagnitudes ==
    /\ (op = "New" /\ args[4] # 0) =>
           LET n == args[3]
               d == args[4]
           IN  /\ err = ErrNil
               /\ res.numerator * Magnitude(d) = res.denominator * Magnitude(n)
               /\ (n # 0 => res.negative = ((n < 0) # (d < 0)))
    /\ op = "NewI" => res = New(args[1], "int64", args[2], 1).val

\* FromFloat64Approx was called with a float that is neither NaN nor 0 and a
\* maxDen >= 1
ApproxCase ==
    /\ op = "FromFloat64Approx"
    /\ args[1] \in {"negative", "positive"}
    /\ args[2] >= 1

\* C16: for every float that is neither NaN nor 0, every maxDen >= 1 and
\* every sequence of partial quotients, the loop of FromFloat64Approx runs at
\* most SafetyBound iterations, its first iteration moves the convergent
\* away from (1, 0), and the Fraction returned is canonical with
\* 1 <= denominator <= maxDen.
C16_ApproxTerminatesWithinBound ==
    ApproxCase =>
        /\ loop.i <= SafetyBound
        /\ (loop.pc = "loop" => loop.i < SafetyBound)
        /\ (loop.i >= 1 => (<<loop.p, loop.q>> # <<1, 0>> /\ loop.q \in 1..args[2]))
        /\ (loop.pc = "idle" =>
               /\ loop.i >= 1
               /\ err = ErrNil
               /\ Canonical(res)
               /\ res.denominator \in 1..args[2])

\* a call that returned after three or more iterations, at a convergent
\* whose next denominator can wrap around to 0
C16_Witness ==
    /\ ApproxCase
    /\ loop.pc = "idle"
    /\ loop.i >= 3
    /\ loop.q > 1
    /\ \E a \in 1..MaxUint64 :
           /\ a * loop.q <= MaxUint64
           /\ a * loop.p <= MaxUint64
           /\ a * loop.q + loop.qPrev = Base
    /\ res.denominator > 1

====
